---------------------------- MODULE Spec2Model ----------------------------
(***************************************************************************)
(* Model of parity-crypto/src/publickey/keypair.rs: the KeyPair aggregate  *)
(* (from_secret, from_secret_slice, from_keypair, secret, public, address, *)
(* Display) and public_to_address.                                         *)
(*                                                                         *)
(* Byte strings keep the widths of the source (32-byte Secret, 65-byte     *)
(* uncompressed point, 64-byte Public, 32-byte digest, 20-byte Address).   *)
(* The elliptic curve is a curve of the same shape as secp256k1,           *)
(* y^2 = x^3 + 7 over a prime field with a group of prime order n < p,     *)
(* with a 9-bit field so that the arithmetic can be enumerated; field      *)
(* elements and the order still occupy more than one byte, so byte order   *)
(* is observable.  The one-way hash is a 32-byte mixing function standing  *)
(* in for Keccak-256.                                                      *)
(***************************************************************************)
EXTENDS Integers, Sequences, FiniteSets, TLC

VARIABLES
    ctx,        \* the process-wide SECP256K1 context (lazily initialised)
    op,         \* the operation most recently called by the sequential caller
    arg,        \* its byte-string argument (secret, slice, sec, public)
    argPoint,   \* its curve-point argument (from_keypair), else NoPoint
    result,     \* outcome of that call: [tag, err]
    kp,         \* the KeyPair the caller holds, or NoKeyPair
    origin,     \* the constructor that produced kp
    addr,       \* Address returned by the last address / public_to_address
    text,       \* output of the last Display::fmt
    tpc,        \* per thread: position inside from_secret
    tsecret,    \* per thread: the Secret passed to from_secret
    tkey,       \* per thread: the key::SecretKey local `s`
    tpub,       \* per thread: the key::PublicKey local `pub_key`
    tret,       \* per thread: the value from_secret returned
    produced    \* history: <<secret, public>> of every KeyPair from_secret returned

vars == <<ctx, op, arg, argPoint, result, kp, origin, addr, text,
          tpc, tsecret, tkey, tpub, tret, produced>>

seqVars == <<op, arg, argPoint, result, kp, origin, addr, text>>
thrVars == <<tpc, tsecret, tkey, tpub, tret, produced>>

---------------------------------------------------------------------------
(* Bounds of the model *)

\* scalars 0..MaxScalar are offered as secrets (besides the band around n)
MaxScalar == 6
\* scalars 1..MaxKeypairScalar are offered to from_keypair, as sec and as publ
MaxKeypairScalar == 3
\* the points 1*G..MaxPublicScalar*G are offered to public_to_address
MaxPublicScalar == 2
\* number of concurrent callers of from_secret
NumThreads == 2
\* scalars 1..MaxThreadScalar are offered to the concurrent callers
MaxThreadScalar == 2

---------------------------------------------------------------------------
(* Sizes fixed by the types used in the source *)

SECRET_KEY_SIZE == 32
UNCOMPRESSED_PUBLIC_KEY_SIZE == 65
PUBLIC_SIZE == 64
HASH_SIZE == 32
ADDRESS_SIZE == 20
HASH_SKIP == 12

---------------------------------------------------------------------------
(* Byte-string helpers: Rust slices and copy_from_slice *)

\* a value no byte string equals: the call panicked
PANIC == <<-1>>

Zeros(len) == [i \in 1..len |-> 0]

\* &s[from..to]: panics when the range is out of bounds
Slice(s, from, to) ==
    IF s = PANIC \/ from > to \/ to > Len(s) THEN PANIC
    ELSE SubSeq(s, from + 1, to)

\* dst.copy_from_slice(src): panics when the lengths differ
CopyFromSlice(dst, src) ==
    IF src = PANIC \/ Len(dst) # Len(src) THEN PANIC ELSE src

\* big-endian encoding in len bytes of v < 2^31: the bytes above the low four
\* are zero
ToBE(v, len) ==
    [i \in 1..len |-> IF len - i > 3 THEN 0 ELSE (v \div (256 ^ (len - i))) % 256]

\* value of a big-endian byte string (used on strings known to be < n)
RECURSIVE FromBE(_)
FromBE(b) ==
    IF Len(b) = 0 THEN 0
    ELSE IF Len(b) = 1 THEN b[1]
    ELSE LET half == Len(b) \div 2
             hi == FromBE(SubSeq(b, 1, half))
             lo == FromBE(SubSeq(b, half + 1, Len(b)))
         IN IF hi = 0 THEN lo ELSE hi * (256 ^ (Len(b) - half)) + lo

\* a >= b for big-endian byte strings of equal length: equal, or greater at the
\* most significant byte where they differ
BytesGE(a, b) ==
    LET diff == {i \in 1..Len(a) : a[i] # b[i]} IN
    \/ diff = {}
    \/ LET first == CHOOSE i \in diff : \A j \in diff : i <= j
       IN a[first] > b[first]

IsZero(b) == \A i \in 1..Len(b) : b[i] = 0

---------------------------------------------------------------------------
(* The curve: y^2 = x^3 + 7 over F_p, group of prime order n, generator G *)

NoPoint == [inf |-> TRUE, x |-> 0, y |-> 0]

Curve == [p |-> 349, b |-> 7, n |-> 313, G |-> [inf |-> FALSE, x |-> 2, y |-> 109]]

\* inverses modulo the field prime
InvTable ==
    [a \in 1..(Curve.p - 1) |-> CHOOSE x \in 1..(Curve.p - 1) : (a * x) % Curve.p = 1]

InvMod(a, m) == InvTable[a % m]

OnCurve(P) ==
    /\ ~P.inf
    /\ P.x \in 0..(Curve.p - 1)
    /\ P.y \in 0..(Curve.p - 1)
    /\ (P.y * P.y) % Curve.p = (((P.x * P.x) % Curve.p) * P.x + Curve.b) % Curve.p

PointAdd(P, Q) ==
    LET p == Curve.p IN
    IF P.inf THEN Q
    ELSE IF Q.inf THEN P
    ELSE IF P.x = Q.x /\ (P.y + Q.y) % p = 0 THEN NoPoint
    ELSE LET lam == IF P.x = Q.x
                    THEN (3 * ((P.x * P.x) % p) * InvMod(2 * P.y, p)) % p
                    ELSE (((Q.y - P.y) % p) * InvMod((Q.x - P.x) % p, p)) % p
             x3  == (lam * lam - P.x - Q.x) % p
             y3  == (lam * ((P.x - x3) % p) - P.y) % p
         IN [inf |-> FALSE, x |-> x3, y |-> y3]

RECURSIVE ScalarMul(_, _)
ScalarMul(k, P) ==
    IF k = 0 THEN NoPoint
    ELSE LET h == ScalarMul(k \div 2, P)
             d == PointAdd(h, h)
         IN IF k % 2 = 1 THEN PointAdd(d, P) ELSE d


---------------------------------------------------------------------------
(* The secp256k1 library as keypair.rs calls it *)

Uninit == [init |-> FALSE, G |-> NoPoint]

\* lazy_static SECP256K1: built on first dereference, the same value ever after
SECP256K1 == [init |-> TRUE, G |-> Curve.G]

Deref(c) == IF c.init THEN c ELSE SECP256K1

CURVE_ORDER == ToBE(Curve.n, SECRET_KEY_SIZE)

LibOk(v) == [ok |-> TRUE, val |-> v, err |-> "None"]
LibErr(e, v) == [ok |-> FALSE, val |-> v, err |-> e]

\* key::SecretKey::from_slice: 32 bytes, nonzero, below the group order
SecretKey_from_slice(context, data) ==
    IF Len(data) # SECRET_KEY_SIZE THEN LibErr("InvalidSecretKey", <<>>)
    ELSE IF IsZero(data) \/ BytesGE(data, CURVE_ORDER)
         THEN LibErr("InvalidSecretKey", <<>>)
         ELSE LibOk(data)

\* key::PublicKey::from_secret_key: scalar times the context's generator
PublicKey_from_secret_key(context, sk) ==
    LET pt == ScalarMul(FromBE(sk), context.G)
    IN IF pt.inf THEN LibErr("InvalidSecretKey", NoPoint) ELSE LibOk(pt)

\* PublicKey::serialize_vec(context, compressed)
serialize_vec(pk, context, compressed) ==
    IF compressed
    THEN <<2 + (pk.y % 2)>> \o ToBE(pk.x, 32)
    ELSE <<4>> \o ToBE(pk.x, 32) \o ToBE(pk.y, 32)

\* impl From<secp256k1::Error> for Error, applied by the ? operator
ErrorFromSecp(e) ==
    CASE e = "InvalidSecretKey" -> "InvalidSecret"
      [] e = "InvalidPublicKey" -> "InvalidPublic"
      [] e = "InvalidMessage" -> "InvalidMessage"
      [] OTHER -> "InvalidSignature"

\* Secret::import_key: validates the slice and wraps its bytes
Secret_import_key(context, slice) ==
    LET s == SecretKey_from_slice(context, slice)
    IN IF s.ok THEN LibOk(s.val) ELSE LibErr(ErrorFromSecp(s.err), <<>>)

\* Secret::from(key::SecretKey): the 32 bytes of the scalar
Secret_from(sec) == CopyFromSlice(Zeros(SECRET_KEY_SIZE), Slice(sec, 0, SECRET_KEY_SIZE))

\* Keccak256::keccak256: a 32-byte digest of the input.  Byte j of the digest
\* mixes every input byte with its position and with j.
RECURSIVE Absorb(_, _, _)
Absorb(data, lo, hi) ==
    IF lo > hi THEN 0
    ELSE IF lo = hi THEN ((data[lo] + 1) * (data[lo] + lo) * (lo + 7)) % 65521
    ELSE LET mid == (lo + hi) \div 2
         IN (Absorb(data, lo, mid) * 31 + Absorb(data, mid + 1, hi)) % 65521

keccak256(data) ==
    LET a == (Absorb(data, 1, Len(data)) + Len(data)) % 65521
    IN [j \in 1..HASH_SIZE |-> ((a + 1) * (2 * j + 31) + (j * j) * 7 + (a \div 256)) % 256]

---------------------------------------------------------------------------
(* keypair.rs *)

NoKeyPair == [secret |-> <<>>, public |-> <<>>]

Ok(k) == [tag |-> "Ok", kp |-> k, err |-> "None"]
Err(e) == [tag |-> "Err", kp |-> NoKeyPair, err |-> e]
Panicked == [tag |-> "Panic", kp |-> NoKeyPair, err |-> "None"]

\* a KeyPair whose field could not be filled because a copy panicked
Build(secret, public) ==
    IF secret = PANIC \/ public = PANIC THEN Panicked
    ELSE Ok([secret |-> secret, public |-> public])

\* variant: keeps the leading 20 bytes of the digest (&hash[..20])
public_to_address_head(public) ==
    LET hash == keccak256(public)
    IN CopyFromSlice(Zeros(ADDRESS_SIZE), Slice(hash, 0, ADDRESS_SIZE))

\* pub fn public_to_address(public: &Public) -> Address
public_to_address(public) ==
    LET hash == keccak256(public)
    IN CopyFromSlice(Zeros(ADDRESS_SIZE), Slice(hash, HASH_SKIP, Len(hash)))

\* variant: copies serialized[0..64], the tag byte included
PublicOf_off(context, pub_key) ==
    LET serialized == serialize_vec(pub_key, context, FALSE)
    IN CopyFromSlice(Zeros(PUBLIC_SIZE), Slice(serialized, 0, PUBLIC_SIZE))

\* variant: the copy is missing, Public::default() is stored
PublicOf_default(context, pub_key) == Zeros(PUBLIC_SIZE)

\* the tail of from_secret and from_keypair: serialize, strip the tag byte
PublicOf(context, pub_key) ==
    LET serialized == serialize_vec(pub_key, context, FALSE)
    IN CopyFromSlice(Zeros(PUBLIC_SIZE), Slice(serialized, 1, UNCOMPRESSED_PUBLIC_KEY_SIZE))

\* a^e modulo m
RECURSIVE PowMod(_, _, _)
PowMod(a, e, m) ==
    IF e = 0 THEN 1
    ELSE LET h == PowMod(a, e \div 2, m)
             s == (h * h) % m
         IN IF e % 2 = 1 THEN (s * a) % m ELSE s

\* value of a big-endian byte string modulo m
RECURSIVE ModBE(_, _)
ModBE(b, m) ==
    IF Len(b) = 0 THEN 0
    ELSE IF Len(b) = 1 THEN b[1] % m
    ELSE LET half == Len(b) \div 2
         IN (ModBE(SubSeq(b, 1, half), m) * PowMod(256, Len(b) - half, m)
             + ModBE(SubSeq(b, half + 1, Len(b)), m)) % m

\* variant: the scalar is reduced modulo n and only zero is rejected
from_secret_reduce(context, secret) ==
    LET k == ModBE(secret, Curve.n) IN
    IF k = 0 THEN Err("InvalidSecret")
    ELSE Build(secret, PublicOf(context, ScalarMul(k, context.G)))

\* KeyPair::from_secret
from_secret(context, secret) ==
    LET s == SecretKey_from_slice(context, secret) IN
    IF ~s.ok THEN Err(ErrorFromSecp(s.err))
    ELSE LET pub_key == PublicKey_from_secret_key(context, s.val) IN
         IF ~pub_key.ok THEN Err(ErrorFromSecp(pub_key.err))
         ELSE Build(secret, PublicOf(context, pub_key.val))

Reverse(b) == [i \in 1..Len(b) |-> b[Len(b) + 1 - i]]

\* variant: the slice is imported in little-endian order
from_secret_slice_le(context, slice) ==
    LET imported == Secret_import_key(context, Reverse(slice)) IN
    IF ~imported.ok THEN Err(imported.err)
    ELSE from_secret(context, imported.val)

\* variant: the first 32 bytes of the slice are imported (&slice[..32])
from_secret_slice_trunc(context, slice) ==
    LET head == Slice(slice, 0, SECRET_KEY_SIZE) IN
    IF head = PANIC THEN Panicked
    ELSE LET imported == Secret_import_key(context, head) IN
         IF ~imported.ok THEN Err(imported.err)
         ELSE from_secret(context, imported.val)

\* KeyPair::from_secret_slice
from_secret_slice(context, slice) ==
    LET imported == Secret_import_key(context, slice) IN
    IF ~imported.ok THEN Err(imported.err)
    ELSE from_secret(context, imported.val)

\* variant: the public key is derived again from sec, publ is ignored
from_keypair_rederive(context, sec, publ) == from_secret(context, Secret_from(sec))

\* KeyPair::from_keypair
from_keypair(context, sec, publ) ==
    Build(Secret_from(sec), PublicOf(context, publ))

\* KeyPair::secret, KeyPair::public
KeyPair_secret(self) == self.secret
KeyPair_public(self) == self.public

\* variant: the address is memoized in the slot of the last address computed
address_cached(self) ==
    IF addr # <<>> THEN addr ELSE public_to_address(KeyPair_public(self))

\* KeyPair::address
address(self) == public_to_address(KeyPair_public(self))

---------------------------------------------------------------------------
(* Display *)

HexDigits == <<"0", "1", "2", "3", "4", "5", "6", "7",
               "8", "9", "a", "b", "c", "d", "e", "f">>

\* {:x} of a fixed-size hash: two lower-case digits per byte, no prefix
LowerHex(b) ==
    [i \in 1..(2 * Len(b)) |->
        IF i % 2 = 1 THEN HexDigits[(b[(i + 1) \div 2] \div 16) + 1]
        ELSE HexDigits[(b[i \div 2] % 16) + 1]]

SecretLabel == <<"s", "e", "c", "r", "e", "t", ":", " ", " ">>
PublicLabel == <<"p", "u", "b", "l", "i", "c", ":", " ", " ">>
AddressLabel == <<"a", "d", "d", "r", "e", "s", "s", ":", " ">>
Newline == <<"\n">>

\* variant: the third line is written with writeln!
fmt_writeln(self) ==
    (SecretLabel \o LowerHex(KeyPair_secret(self)) \o Newline)
    \o (PublicLabel \o LowerHex(KeyPair_public(self)) \o Newline)
    \o (AddressLabel \o LowerHex(address(self)) \o Newline)

\* impl fmt::Display for KeyPair
fmt(self) ==
    (SecretLabel \o LowerHex(KeyPair_secret(self)) \o Newline)
    \o (PublicLabel \o LowerHex(KeyPair_public(self)) \o Newline)
    \o (AddressLabel \o LowerHex(address(self)))

---------------------------------------------------------------------------
(* Inputs offered to the operations *)

\* scalars: small ones, the multi-byte ones around 256, the band around n
ScalarInputs ==
    (0..MaxScalar) \cup (255..257) \cup ((Curve.n - 2)..(Curve.n + 2))

\* 32-byte secrets: the scalars above, and small scalars with the top bit set
SecretInputs ==
    {ToBE(v, SECRET_KEY_SIZE) : v \in ScalarInputs}
    \cup {[ToBE(v, SECRET_KEY_SIZE) EXCEPT ![1] = 128] : v \in 0..MaxScalar}

\* slices of 0, 31, 32 and 33 bytes
SliceInputs ==
    SecretInputs \cup {<<>>}
    \cup {Tail(s) : s \in SecretInputs}
    \cup {<<0>> \o s : s \in SecretInputs}
    \cup {s \o <<7>> : s \in SecretInputs}

\* key::SecretKey values: validated scalars, one- and two-byte ones
SecretKeyInputs ==
    {ToBE(v, SECRET_KEY_SIZE) : v \in (1..MaxKeypairScalar) \cup {256, Curve.n - 1}}

\* key::PublicKey values: points of the group other than infinity
PublicKeyInputs ==
    {ScalarMul(FromBE(s), Curve.G) : s \in SecretKeyInputs}

\* 64-byte Public values: coordinates of points, and arbitrary bytes
PublicInputs ==
    {PublicOf(SECP256K1, ScalarMul(k, Curve.G)) : k \in 1..MaxPublicScalar}
    \cup {Zeros(PUBLIC_SIZE), [i \in 1..PUBLIC_SIZE |-> 255 - i]}

Threads == 1..NumThreads

ThreadSecrets == {ToBE(v, SECRET_KEY_SIZE) : v \in 0..MaxThreadScalar}

---------------------------------------------------------------------------
(* The sequential caller *)

NoRet == [tag |-> "None", kp |-> NoKeyPair, err |-> "None"]

Init ==
    /\ ctx = Uninit
    /\ op = "none"
    /\ arg = <<>>
    /\ argPoint = NoPoint
    /\ result = [tag |-> "None", err |-> "None"]
    /\ kp = NoKeyPair
    /\ origin = "none"
    /\ addr = <<>>
    /\ text = <<>>
    /\ tpc = [t \in Threads |-> "idle"]
    /\ tsecret = [t \in Threads |-> <<>>]
    /\ tkey = [t \in Threads |-> <<>>]
    /\ tpub = [t \in Threads |-> NoPoint]
    /\ tret = [t \in Threads |-> NoRet]
    /\ produced = {}

\* what a constructor call leaves behind
Constructed(name, bytes, point, r) ==
    /\ op' = name
    /\ arg' = bytes
    /\ argPoint' = point
    /\ result' = [tag |-> r.tag, err |-> r.err]
    /\ kp' = r.kp
    /\ origin' = IF r.tag = "Ok" THEN name ELSE "none"
    /\ addr' = <<>>
    /\ text' = <<>>

FromSecret ==
    \E s \in SecretInputs :
        /\ ctx' = Deref(ctx)
        /\ Constructed("from_secret", s, NoPoint, from_secret(ctx', s))
        /\ UNCHANGED thrVars

FromSecretSlice ==
    \E slice \in SliceInputs :
        /\ ctx' = Deref(ctx)
        /\ Constructed("from_secret_slice", slice, NoPoint, from_secret_slice(ctx', slice))
        /\ UNCHANGED thrVars

FromKeypair ==
    \E sec \in SecretKeyInputs, publ \in PublicKeyInputs :
        /\ ctx' = Deref(ctx)
        /\ Constructed("from_keypair", sec, publ, from_keypair(ctx', sec, publ))
        /\ UNCHANGED thrVars

Address ==
    /\ kp # NoKeyPair
    /\ op' = "address"
    /\ arg' = <<>>
    /\ argPoint' = NoPoint
    /\ addr' = address(kp)
    /\ result' = [tag |-> IF addr' = PANIC THEN "Panic" ELSE "Ok", err |-> "None"]
    /\ text' = <<>>
    /\ UNCHANGED <<ctx, kp, origin>>
    /\ UNCHANGED thrVars

PublicToAddress ==
    \E p \in PublicInputs :
        /\ op' = "public_to_address"
        /\ arg' = p
        /\ argPoint' = NoPoint
        /\ addr' = public_to_address(p)
        /\ result' = [tag |-> IF addr' = PANIC THEN "Panic" ELSE "Ok", err |-> "None"]
        /\ text' = <<>>
        /\ UNCHANGED <<ctx, kp, origin>>
        /\ UNCHANGED thrVars

Display ==
    /\ kp # NoKeyPair
    /\ op' = "fmt"
    /\ arg' = <<>>
    /\ argPoint' = NoPoint
    /\ addr' = <<>>
    /\ text' = fmt(kp)
    /\ result' = [tag |-> "Ok", err |-> "None"]
    /\ UNCHANGED <<ctx, kp, origin>>
    /\ UNCHANGED thrVars

Next ==
    \/ FromSecret
    \/ FromSecretSlice
    \/ FromKeypair
    \/ Address
    \/ PublicToAddress
    \/ Display

Spec == Init /\ [][Next]_vars

---------------------------------------------------------------------------
(* Concurrent callers of from_secret, one step per statement *)

\* variant: the call leaves its result in the shared context
ContextClobbered(c, pt) == [c EXCEPT !.G = pt]

\* the shared context after a call borrowed it as &SECP256K1: untouched
ContextAfterUse(c, pt) == c

\* a caller enters from_secret(s)
TCall(t) ==
    \E s \in ThreadSecrets :
        /\ tpc[t] = "idle"
        /\ tpc' = [tpc EXCEPT ![t] = "context"]
        /\ tsecret' = [tsecret EXCEPT ![t] = s]
        /\ UNCHANGED <<ctx, tkey, tpub, tret, produced>>
        /\ UNCHANGED seqVars

\* let context = &SECP256K1;
TContext(t) ==
    /\ tpc[t] = "context"
    /\ ctx' = Deref(ctx)
    /\ tpc' = [tpc EXCEPT ![t] = "secret_key"]
    /\ UNCHANGED <<tsecret, tkey, tpub, tret, produced>>
    /\ UNCHANGED seqVars

\* let s = key::SecretKey::from_slice(context, &secret[..])?;
TSecretKey(t) ==
    /\ tpc[t] = "secret_key"
    /\ LET s == SecretKey_from_slice(ctx, tsecret[t]) IN
       IF s.ok
       THEN /\ tkey' = [tkey EXCEPT ![t] = s.val]
            /\ tpc' = [tpc EXCEPT ![t] = "public_key"]
            /\ tret' = tret
       ELSE /\ tkey' = tkey
            /\ tpc' = [tpc EXCEPT ![t] = "done"]
            /\ tret' = [tret EXCEPT ![t] = Err(ErrorFromSecp(s.err))]
    /\ UNCHANGED <<ctx, tsecret, tpub, produced>>
    /\ UNCHANGED seqVars

\* let pub_key = key::PublicKey::from_secret_key(context, &s)?;
TPublicKey(t) ==
    /\ tpc[t] = "public_key"
    /\ LET pub_key == PublicKey_from_secret_key(ctx, tkey[t]) IN
       /\ ctx' = ContextAfterUse(ctx, pub_key.val)
       /\ IF pub_key.ok
          THEN /\ tpub' = [tpub EXCEPT ![t] = pub_key.val]
               /\ tpc' = [tpc EXCEPT ![t] = "serialize"]
               /\ tret' = tret
          ELSE /\ tpub' = tpub
               /\ tpc' = [tpc EXCEPT ![t] = "done"]
               /\ tret' = [tret EXCEPT ![t] = Err(ErrorFromSecp(pub_key.err))]
    /\ UNCHANGED <<tsecret, tkey, produced>>
    /\ UNCHANGED seqVars

\* serialize, copy serialized[1..65], build the KeyPair, Ok(keypair)
TSerialize(t) ==
    /\ tpc[t] = "serialize"
    /\ LET r == Build(tsecret[t], PublicOf(ctx, tpub[t])) IN
       /\ tret' = [tret EXCEPT ![t] = r]
       /\ produced' = IF r.tag = "Ok"
                      THEN produced \cup {<<r.kp.secret, r.kp.public>>}
                      ELSE produced
    /\ tpc' = [tpc EXCEPT ![t] = "done"]
    /\ UNCHANGED <<ctx, tsecret, tkey, tpub>>
    /\ UNCHANGED seqVars

\* the caller drops the result and may call again
TReturn(t) ==
    /\ tpc[t] = "done"
    /\ tpc' = [tpc EXCEPT ![t] = "idle"]
    /\ tsecret' = [tsecret EXCEPT ![t] = <<>>]
    /\ tkey' = [tkey EXCEPT ![t] = <<>>]
    /\ tpub' = [tpub EXCEPT ![t] = NoPoint]
    /\ tret' = [tret EXCEPT ![t] = NoRet]
    /\ UNCHANGED <<ctx, produced>>
    /\ UNCHANGED seqVars

NextThreads ==
    \E t \in Threads :
        \/ TCall(t)
        \/ TContext(t)
        \/ TSecretKey(t)
        \/ TPublicKey(t)
        \/ TSerialize(t)
        \/ TReturn(t)

SpecThreads == Init /\ [][NextThreads]_vars

---------------------------------------------------------------------------
(* Properties *)

\* b is the 32-byte big-endian form of an integer in [1, n-1]
InRange(b) == \E v \in 1..(Curve.n - 1) : b = ToBE(v, SECRET_KEY_SIZE)

\* the integer in [1, n-1] that b encodes
ScalarOf(b) == CHOOSE v \in 1..(Curve.n - 1) : b = ToBE(v, SECRET_KEY_SIZE)

\* the 65-byte uncompressed serialization of a point: tag, x, y
Uncompressed(pt) == <<4>> \o ToBE(pt.x, 32) \o ToBE(pt.y, 32)

\* k.public is the x||y of k.secret * Generator
Linked(k) ==
    /\ InRange(k.secret)
    /\ Len(k.public) = 64
    /\ <<4>> \o k.public = Uncompressed(ScalarMul(ScalarOf(k.secret), Curve.G))

InvalidSecretResult == [tag |-> "Err", err |-> "InvalidSecret"]

\* C1 as stated: every KeyPair, whichever constructor produced it (from_secret,
\* from_secret_slice or from_keypair), has public = x||y of secret * Generator.
C1_EveryKeyPairLinked ==
    kp # NoKeyPair => Linked(kp)

\* C1 amended: a KeyPair produced by from_secret or from_secret_slice has
\* public = x||y of secret * Generator, for as long as it is held; one produced
\* by from_keypair has it exactly when the supplied point is sec * Generator.
C1_DerivedKeyPairLinked ==
    /\ origin \in {"from_secret", "from_secret_slice"} => Linked(kp)
    /\ op = "from_keypair" =>
           (Linked(kp) <=> argPoint = ScalarMul(ScalarOf(arg), Curve.G))

C1_Witness ==
    /\ origin = "from_secret_slice"
    /\ op = "fmt"
    /\ kp.secret = ToBE(Curve.n - 1, SECRET_KEY_SIZE)

\* C2: when from_secret(s) succeeds, public() is the 64 bytes after the tag byte
\* of the 65-byte uncompressed serialization of s * Generator (x then y), and
\* secret() is s.
C2_FromSecretDerives ==
    (op = "from_secret" /\ result.tag = "Ok") =>
        /\ KeyPair_secret(kp) = arg
        /\ Len(KeyPair_public(kp)) = 64
        /\ InRange(arg)
        /\ LET pt == ScalarMul(ScalarOf(arg), Curve.G) IN
           /\ OnCurve(pt)
           /\ SubSeq(KeyPair_public(kp), 1, 32) = ToBE(pt.x, 32)
           /\ SubSeq(KeyPair_public(kp), 33, 64) = ToBE(pt.y, 32)
           /\ <<4>> \o KeyPair_public(kp) = Uncompressed(pt)

C2_Witness ==
    /\ op = "from_secret"
    /\ result.tag = "Ok"
    /\ arg = ToBE(256, SECRET_KEY_SIZE)
    /\ kp.public # Zeros(64)

\* C3: for every 32-byte b with value in [1, n-1], from_secret_slice(b) succeeds
\* and the secret() of the pair has the bytes of b.
C3_SliceInRangeSucceeds ==
    (op = "from_secret_slice" /\ Len(arg) = 32 /\ InRange(arg)) =>
        /\ result.tag = "Ok"
        /\ KeyPair_secret(kp) = arg

C3_Witness ==
    /\ op = "from_secret_slice"
    /\ arg = ToBE(Curve.n - 1, SECRET_KEY_SIZE)
    /\ result.tag = "Ok"
    /\ kp.secret = arg

\* C4: for every 32-byte secret with value 0 or >= n, from_secret and
\* from_secret_slice return InvalidSecret and no KeyPair.
C4_OutOfRangeRejected ==
    (op \in {"from_secret", "from_secret_slice"} /\ Len(arg) = 32 /\ ~InRange(arg)) =>
        /\ result = InvalidSecretResult
        /\ kp = NoKeyPair

C4_Witness ==
    /\ op = "from_secret"
    /\ arg = ToBE(Curve.n, SECRET_KEY_SIZE)
    /\ result = InvalidSecretResult
    /\ kp = NoKeyPair

\* C5: for every slice whose length is not 32, from_secret_slice returns
\* InvalidSecret: it does not panic and returns no KeyPair.
C5_WrongLengthRejected ==
    (op = "from_secret_slice" /\ Len(arg) # 32) =>
        /\ result = InvalidSecretResult
        /\ kp = NoKeyPair

C5_Witness ==
    /\ op = "from_secret_slice"
    /\ Len(arg) = 33
    /\ InRange(SubSeq(arg, 1, 32))
    /\ result = InvalidSecretResult

\* C6: at every call, kp.address() equals public_to_address(kp.public()); the
\* pair has the two fields secret and public and no address field.
C6_AddressFromPublic ==
    /\ DOMAIN kp = {"secret", "public"}
    /\ op = "address" =>
           /\ result.tag = "Ok"
           /\ addr = public_to_address(KeyPair_public(kp))

C6_Witness ==
    /\ op = "address"
    /\ origin = "from_keypair"
    /\ Len(addr) = 20

\* C7: public_to_address(p) returns 20 bytes, byte i being byte 12+i of the
\* 32-byte digest of p, and has no failure outcome.
C7_AddressIsDigestTail ==
    op = "public_to_address" =>
        /\ result.tag = "Ok"
        /\ Len(arg) = 64
        /\ Len(keccak256(arg)) = 32
        /\ Len(addr) = 20
        /\ \A i \in 0..19 : addr[i + 1] = keccak256(arg)[12 + i + 1]

C7_Witness ==
    /\ op = "public_to_address"
    /\ arg = Zeros(64)
    /\ Len(addr) = 20
    /\ addr # SubSeq(keccak256(arg), 1, 20)

LowerHexChars ==
    {"0", "1", "2", "3", "4", "5", "6", "7", "8", "9", "a", "b", "c", "d", "e", "f"}

HexValue(c) ==
    CASE c = "0" -> 0 [] c = "1" -> 1 [] c = "2" -> 2 [] c = "3" -> 3
      [] c = "4" -> 4 [] c = "5" -> 5 [] c = "6" -> 6 [] c = "7" -> 7
      [] c = "8" -> 8 [] c = "9" -> 9 [] c = "a" -> 10 [] c = "b" -> 11
      [] c = "c" -> 12 [] c = "d" -> 13 [] c = "e" -> 14 [] c = "f" -> 15

\* h is the lower-case hex of the bytes b, two digits per byte
IsHexOf(h, b) ==
    /\ Len(h) = 2 * Len(b)
    /\ \A i \in 1..Len(h) : h[i] \in LowerHexChars
    /\ \A i \in 1..Len(b) : 16 * HexValue(h[2 * i - 1]) + HexValue(h[2 * i]) = b[i]

\* C8: the Display output is "secret:  " + 64 hex, newline, "public:  " + 128
\* hex, newline, "address: " + 40 hex, no newline at the end, lower case, no 0x;
\* the hex values are those of secret(), public() and address().
C8_DisplayFormat ==
    op = "fmt" =>
        /\ Len(text) = 9 + 64 + 1 + 9 + 128 + 1 + 9 + 40
        /\ SubSeq(text, 1, 9) = <<"s", "e", "c", "r", "e", "t", ":", " ", " ">>
        /\ IsHexOf(SubSeq(text, 10, 73), KeyPair_secret(kp))
        /\ text[74] = "\n"
        /\ SubSeq(text, 75, 83) = <<"p", "u", "b", "l", "i", "c", ":", " ", " ">>
        /\ IsHexOf(SubSeq(text, 84, 211), KeyPair_public(kp))
        /\ text[212] = "\n"
        /\ SubSeq(text, 213, 221) = <<"a", "d", "d", "r", "e", "s", "s", ":", " ">>
        /\ IsHexOf(SubSeq(text, 222, 261), SubSeq(keccak256(KeyPair_public(kp)), 13, 32))
        /\ {i \in 1..Len(text) : text[i] = "\n"} = {74, 212}

C8_Witness ==
    /\ op = "fmt"
    /\ origin = "from_secret"
    /\ kp.secret = ToBE(256, SECRET_KEY_SIZE)
    /\ Len(text) = 261

C10_FromKeypairCopies ==
    op = "from_keypair" =>
        /\ result.tag = "Ok"
        /\ KeyPair_secret(kp) = arg
        /\ Len(KeyPair_public(kp)) = 64
        /\ <<4>> \o KeyPair_public(kp) = Uncompressed(argPoint)

C10_Witness ==
    /\ op = "from_keypair"
    /\ result.tag = "Ok"
    /\ argPoint # ScalarMul(ScalarOf(arg), Curve.G)
    /\ ~Linked(kp)

===========================================================================
